---- MODULE Spec2Model ----
(***************************************************************************)
(* Model of the Memori HTTP client (memori/_network.py): header building,  *)
(* quota handling, the async retry loop, the dedicated augmentation call   *)
(* and the sync operations behind the retrying HTTP adapter.               *)
(***************************************************************************)
EXTENDS Integers, Sequences, FiniteSets, TLC

VARIABLES
    config_api_key,  \* Config.api_key of the Api instance
    env_api_key,     \* os.environ.get("MEMORI_API_KEY")
    x_api_key,       \* Api.__x_api_key, the service-level key
    op,              \* the client operation in progress
    pc,              \* "idle", "send", "inflight", "done"
    req_headers,     \* the headers built for the call
    attempts,        \* __request_async: attempts
    retries_total,   \* sync adapter: remaining Retry.total
    log,             \* events of the call: "req" (request sent), "sleep" (back-off)
    delays,          \* arguments of asyncio.sleep, in order
    response,        \* the last answer received (NoResponse: the request raised)
    result,          \* how the call ended: a returned value or a raised exception
    answers,         \* history: number of outcomes received in the call
    nfail,           \* history: outcomes that were a 5xx answer or no answer at all
    all503,          \* history: every outcome of the call was a 503 answer
    quota_at,        \* history: Len(log) when an anonymous 403/429 was first answered
    retry_call       \* a call of _ApiRetryRecoverable.is_retry and its result

VARIABLES
    l_pc,            \* _cmd_login: "init", "create", "browser", "wait", "extract", "exited"
    l_state,         \* state of the login orchestrator
    l_exit,          \* how _cmd_login ended: returned a code, or raised
    port_free,       \* whether args.port can be bound
    server,          \* the callback server: port, serving, closed, calls made on it
    flow_cell,       \* state["token_flow_id"], shared with the server thread
    cell_writes,     \* history: the threads that wrote flow_cell, in order
    create_response, \* the TokenFlowCreateResponse of create
    create_port,     \* localhost_port sent by create (0: not sent)
    wait_log,        \* history: the arguments of every wait call
    n_timeouts,      \* history: wait answers that were timeouts
    wait_payload,    \* the last payload returned by wait
    events,          \* history: "create", "browser", "wait", "save" in order
    l_trace,         \* history: the orchestrator states passed through
    browser_url,     \* the URL given to webbrowser.open
    keyring,         \* the credential store: api_key and account_email entries
    store_mode,      \* how the credential store behaves
    store_writes,    \* history: number of entries written by set_password
    srv_pc,          \* server thread: "idle" or "handling" a GET
    srv_local,       \* do_GET: the token_flow_id it read
    gets             \* history: the answers of do_GET, in order

loginVars == <<l_pc, l_state, l_exit, port_free, server, flow_cell, cell_writes,
               create_response, create_port, wait_log, n_timeouts, wait_payload,
               events, l_trace, browser_url, keyring, store_mode, store_writes,
               srv_pc, srv_local, gets>>

VARIABLES
    disable_keyring, \* os.environ.get("MEMORI_DISABLE_KEYRING") == "1"
    cmd,             \* the last status / logout / resolve_api_key call and its result
    ncmds,           \* number of commands started
    wait_call        \* TokenFlowClient.wait: the last call, its request and answer time

cliVars == <<disable_keyring, cmd, ncmds, wait_call>>

VARIABLES
    _AUTH_NUDGE_SHOWN, \* memori/__init__.py: the module-level shown-flag
    nudges,            \* history: number of times the nudge was displayed
    c_pc,              \* per thread: the line of _check_auth it is about to run
    c_env,             \* per thread: what its construction resolved and sees
    shown_with,        \* history: the c_env of every construction that displayed
    n_constructed      \* number of Memori constructions started

nudgeVars == <<_AUTH_NUDGE_SHOWN, nudges, c_pc, c_env, shown_with, n_constructed>>

VARIABLES
    config_entity_id,  \* Memori.config.entity_id
    config_process_id, \* Memori.config.process_id
    attr_call          \* the last call of Memori.attribution and how it ended

attrVars == <<config_entity_id, config_process_id, attr_call>>

VARIABLES
    cluster_id_file,   \* the locally recorded cluster id (None: no file)
    cm_pc,             \* ClusterManager: the step start / delete is about to run
    cm_op,             \* the ClusterManager operation in progress or last ended
    cm_started,        \* start: started["cluster"]["uuid"]
    cm_i,              \* start: finalize calls made by the loop
    cm_finalized,      \* start: finalized["status"] (-1: finalized is None)
    cm_exit,           \* how the operation ended
    cm_before,         \* history: cluster_id_file when the operation was called
    cm_hist,           \* history: requests sent by the operation
    cm_api_result,     \* delete: how Api.delete ended
    schema_built       \* start: the schema build ran

clusterVars == <<cluster_id_file, cm_pc, cm_op, cm_started, cm_i, cm_finalized,
                 cm_exit, cm_before, cm_hist, cm_api_result, schema_built>>

libVars == <<nudgeVars, attrVars, clusterVars>>

netVars == <<op, pc, req_headers, attempts, retries_total, log, delays,
             response, result, answers, nfail, all503, quota_at>>
cfgVars == <<config_api_key, env_api_key, x_api_key>>
vars == <<cfgVars, netVars, retry_call, loginVars, cliVars, libVars>>

----------------------------------------------------------------------------
(* Bounds of the model *)

\* status codes given to the retry classifier: MinStatus..MaxStatus
MinStatus == 100
MaxStatus == 650

\* timeouts the service answers to wait before it must answer otherwise
MaxRounds == 3

\* GET requests made to the callback server during one login
MaxGets == 2

\* commands run one after the other
MaxCommands == 3

\* largest timeout_seconds given to TokenFlowClient.wait
MaxTimeoutSeconds == 12

----------------------------------------------------------------------------
(* Python values *)

None == "None"

\* bool(v) of a value that is None or a string
Truthy(v) == v # None /\ v # ""

\* a or b
PyOr(a, b) == IF Truthy(a) THEN a ELSE b

\* dict.get(k) on a dict held as a set of <<key, value>> pairs
DictGet(d, k) ==
    IF \E p \in d : p[1] = k THEN (CHOOSE p \in d : p[1] = k)[2] ELSE None

----------------------------------------------------------------------------
(* Api.__init__ *)

ProductionKey == "96a7ea3e-11c2-428c-b9ae-5a168363dc80"
StagingKey == "c18b1022-7fe2-42af-ab01-b1f9139184f0"

\* the service key chosen from MEMORI_API_URL_BASE and MEMORI_TEST_MODE
InitXApiKey(base, test_mode) ==
    IF base = None
    THEN IF test_mode THEN StagingKey ELSE ProductionKey
    ELSE StagingKey

ConfigKeys == {None, "", "cfg-key"}
EnvKeys == {None, "", "env-key"}

----------------------------------------------------------------------------
(* Api._get_api_key, Api._is_anonymous, Api.headers *)

_get_api_key == PyOr(config_api_key, env_api_key)

_is_anonymous == ~Truthy(_get_api_key)

BearerPresent(api_key) == api_key # None

headers ==
    {<<"X-Memori-API-Key", x_api_key>>}
    \cup (IF BearerPresent(_get_api_key)
          THEN {<<"Authorization", "Bearer " \o _get_api_key>>}
          ELSE {})

----------------------------------------------------------------------------
(* Responses of the service *)

JsonType == "application/json"
HtmlType == "text/html"

TextNotJson == "<html>busy</html>"
TextEmptyObject == "{}"
TextEmptyMessage == "{message: ''}"
TextMessage == "{message: 'Plan limit hit'}"

Texts == {TextNotJson, TextEmptyObject, TextEmptyMessage, TextMessage}

Statuses == {200, 403, 404, 429, 500, 503, 599}

\* statuses whose body the client reads
BodyStatuses == {200, 403, 429}

NoResponse == [status |-> 0, ctype |-> None, text |-> None]

Responses ==
    [status : BodyStatuses, ctype : {JsonType, HtmlType}, text : Texts]
    \cup [status : Statuses \ BodyStatuses, ctype : {JsonType}, text : {TextEmptyObject}]

\* what a request can come back with: an answer, or no answer (it raised)
Outcomes == Responses \cup {NoResponse}

\* json.loads on the texts of the model
json_loads(text) ==
    CASE text = TextEmptyObject -> [err |-> None, val |-> {}]
      [] text = TextEmptyMessage -> [err |-> None, val |-> {<<"message", "">>}]
      [] text = TextMessage -> [err |-> None, val |-> {<<"message", "Plan limit hit">>}]
      [] OTHER -> [err |-> "JSONDecodeError", val |-> {}]

\* aiohttp ClientResponse.json(): checks the content type, then decodes
aiohttp_json(r) ==
    IF r.ctype # JsonType
    THEN [err |-> "ContentTypeError", val |-> {}]
    ELSE json_loads(r.text)

\* requests Response.json(): decodes whatever the content type
requests_json(r) == json_loads(r.text)

----------------------------------------------------------------------------
(* Results and exceptions *)

NoExc == [cls |-> None, status |-> 0, message |-> None]

DefaultQuotaMessage == "Quota reached. Run memori login to upgrade."

\* a quota error that keeps an empty message instead of the default
QuotaExceededError_keeps_empty(message) ==
    [cls |-> "QuotaExceededError", status |-> 0,
     message |-> IF message # None THEN message ELSE DefaultQuotaMessage]

QuotaExceededError(message) ==
    [cls |-> "QuotaExceededError", status |-> 0,
     message |-> IF Truthy(message) THEN message ELSE DefaultQuotaMessage]

\* aiohttp.ClientResponseError / requests.HTTPError of a response
HTTPError(status) == [cls |-> "HTTPError", status |-> status, message |-> None]

\* aiohttp.ContentTypeError, a ClientResponseError carrying the response status
ContentTypeError(status) ==
    [cls |-> "ContentTypeError", status |-> status, message |-> None]

OtherError(cls) == [cls |-> cls, status |-> 0, message |-> None]

IsClientResponseError(e) == e.cls \in {"HTTPError", "ContentTypeError"}

NoResult == [kind |-> "none", value |-> {}, exc |-> NoExc]
Returned(v) == [kind |-> "return", value |-> v, exc |-> NoExc]
Raised(e) == [kind |-> "raise", value |-> {}, exc |-> e]

\* the message read from a quota answer: the try/except around json()/get()
QuotaMessage(parsed) ==
    IF parsed.err # None THEN None ELSE DictGet(parsed.val, "message")

IsQuotaStatus(status) == status \in {403, 429}

\* a raise_for_status that lets 4xx answers through
raise_for_status_5xx_only(status) == status >= 500

\* Response.raise_for_status(): raises for 4xx and 5xx
raise_for_status(status) == status >= 400

----------------------------------------------------------------------------
(* _ApiRetryRecoverable.is_retry *)

Methods == {"GET", "PATCH", "POST", "PUT", "DELETE"}

\* a classifier that leaves out the last status of the range
is_retry_open_range(method, status_code, has_retry_after) ==
    500 <= status_code /\ status_code < 599

is_retry(method, status_code, has_retry_after) ==
    500 <= status_code /\ status_code <= 599

----------------------------------------------------------------------------
(* Operations *)

SyncOps == {"get", "post", "patch", "delete"}
RetryAsyncOps == {"get_async", "post_async", "patch_async"}
AugOp == "augmentation_async"
Ops == SyncOps \cup RetryAsyncOps \cup {AugOp}

MethodOf(o) ==
    CASE o \in {"get", "get_async"} -> "GET"
      [] o \in {"post", "post_async", AugOp} -> "POST"
      [] o \in {"patch", "patch_async"} -> "PATCH"
      [] OTHER -> "DELETE"

max_retries == 5
backoff_factor == 1
adapter_total == 5

\* an adapter that raises once the retries are used up
raise_on_status_true == TRUE

\* Retry(raise_on_status=False)
raise_on_status == FALSE

\* __request_async: the body of the try block for one answer
AsyncAttempt(r) ==
    IF r = NoResponse
    THEN Raised(OtherError("ClientConnectionError"))
    ELSE IF IsQuotaStatus(r.status) /\ _is_anonymous
    THEN Raised(QuotaExceededError(QuotaMessage(aiohttp_json(r))))
    ELSE IF raise_for_status(r.status)
    THEN Raised(HTTPError(r.status))
    ELSE LET p == aiohttp_json(r) IN
         CASE p.err = None -> Returned(p.val)
           [] p.err = "ContentTypeError" -> Raised(ContentTypeError(r.status))
           [] OTHER -> Raised(OtherError(p.err))

\* a handler that takes 4xx answers for retryable
NotRetriedStatus_below_400(status) == status < 400 \/ status > 599

\* __request_async, except aiohttp.ClientResponseError: statuses re-raised at once
NotRetriedStatus(status) == status < 500 \/ status > 599

\* a budget check that allows one retry too many
RetriesExhausted_late(n) == n > max_retries

\* a budget check that counts requests instead of retries
RetriesExhausted_early(n) == n + 1 >= max_retries

\* __request_async: the retry budget is used up
RetriesExhausted(n) == n >= max_retries

\* a back-off that starts the exponent at 1
Backoff_shifted(n) == backoff_factor * (2 ^ (n + 1))

\* __request_async: the back-off before the next attempt
Backoff(n) == backoff_factor * (2 ^ n)

\* __request_async: the two except clauses; TRUE when the exception is re-raised
AsyncReraise(e, n) ==
    IF IsClientResponseError(e)
    THEN NotRetriedStatus(e.status) \/ RetriesExhausted(n)
    ELSE RetriesExhausted(n)

\* a soft-throttle test on the wrong quota status
SoftThrottled_403(status) == status = 403

\* augmentation_async: an authenticated 429 is answered with {}
SoftThrottled(status) == status = 429

\* augmentation_async: the body of the call for one answer
AugmentationResult(r) ==
    IF r = NoResponse
    THEN Raised(OtherError("ClientConnectionError"))
    ELSE IF IsQuotaStatus(r.status) /\ _is_anonymous
    THEN Raised(QuotaExceededError(QuotaMessage(aiohttp_json(r))))
    ELSE IF IsQuotaStatus(r.status) /\ SoftThrottled(r.status)
    THEN Returned({})
    ELSE IF raise_for_status(r.status)
    THEN Raised(HTTPError(r.status))
    ELSE LET p == aiohttp_json(r) IN
         CASE p.err = None -> Returned(p.val)
           [] p.err = "ContentTypeError" -> Raised(ContentTypeError(r.status))
           [] OTHER -> Raised(OtherError(p.err))

\* Api._handle_quota_response: TRUE when it raises QuotaExceededError
QuotaRaises(r) == IsQuotaStatus(r.status) /\ _is_anonymous

\* get / post / patch / delete on the final response of the adapter
SyncResult(r) ==
    IF QuotaRaises(r)
    THEN Raised(QuotaExceededError(QuotaMessage(requests_json(r))))
    ELSE IF raise_for_status(r.status)
    THEN Raised(HTTPError(r.status))
    ELSE LET p == requests_json(r) IN
         IF p.err = None THEN Returned(p.val) ELSE Raised(OtherError(p.err))

----------------------------------------------------------------------------
(* History of a call *)

IsServiceFailure(r) == r = NoResponse \/ (500 <= r.status /\ r.status <= 599)

Note(r) ==
    /\ response' = r
    /\ answers' = answers + 1
    /\ nfail' = IF IsServiceFailure(r) THEN nfail + 1 ELSE nfail
    /\ all503' = (all503 /\ r.status = 503)
    /\ quota_at' = IF quota_at = -1 /\ r # NoResponse
                      /\ IsQuotaStatus(r.status) /\ _is_anonymous
                   THEN Len(log) ELSE quota_at

----------------------------------------------------------------------------
(* The login command: values (memori/cli.py, memori/_token_flow.py, memori/_auth.py) *)

ConfiguredPort == 54321
OsAssignedPort == 49152
LoginUrl == "https://memorilabs.ai/login"
WaitTimeoutSeconds == 40

\* a web_url as the token-flow service builds it: /login?token_flow_id=..&code=..
ServiceWebUrl == "https://memorilabs.ai/login?token_flow_id=abc&code=123456"

NoCreateResponse ==
    [token_flow_id |-> None, wait_secret |-> None, web_url |-> None, code |-> None]

NoServer ==
    [port |-> 0, serving |-> FALSE, closed |-> FALSE,
     shutdown_calls |-> 0, close_calls |-> 0, joined |-> FALSE]

NoExit == [how |-> "running", code |-> -1, cls |-> None, line |-> 0]
Return(code, line) == [how |-> "return", code |-> code, cls |-> None, line |-> line]
Uncaught(cls) == [how |-> "raise", code |-> -1, cls |-> cls, line |-> 0]

\* a URL as urlsplit sees it: everything before the query, and the query as a dict
NoUrl == [base |-> None, query |-> {}]

\* no status / logout / resolve_api_key call made yet
NoCmd == [name |-> None, code |-> -1, key |-> None, source |-> None,
          email |-> None, report |-> None, raised |-> FALSE,
          prev |-> None, prev_code |-> -1, prev_key |-> None]

\* TokenFlowClient.wait not called
NoWaitCall == [timeout_seconds |-> -1, token_flow_id |-> None, wait_secret |-> None,
               timeout |-> -1, request_timeout |-> -1, answered_at |-> -1,
               cut_off |-> FALSE]

EmptyKeyring == [api_key |-> None, email |-> None]
OldKeyring == [api_key |-> "old-key", email |-> "old@b.com"]

\* how the credential store behaves during the command
StoreModes == {"ok", "unavailable", "key_write_fails", "email_write_fails"}

\* the same, with the failures of reading and deleting entries
AuthStoreModes == StoreModes \cup {"read_fails", "delete_fails"}

\* the parts of the login state that every command starts from
LoginRest ==
    /\ l_state = None
    /\ l_exit = NoExit
    /\ server = NoServer
    /\ flow_cell = None
    /\ cell_writes = <<>>
    /\ create_response = NoCreateResponse
    /\ create_port = 0
    /\ wait_log = <<>>
    /\ n_timeouts = 0
    /\ wait_payload = {}
    /\ events = <<>>
    /\ l_trace = <<>>
    /\ browser_url = NoUrl
    /\ store_writes = 0
    /\ srv_pc = "idle"
    /\ srv_local = None
    /\ gets = <<>>

\* the login command is not running
LoginOff ==
    /\ l_pc = "off"
    /\ port_free = TRUE
    /\ keyring = EmptyKeyring
    /\ store_mode = "ok"
    /\ LoginRest

\* no command of the CLI has run, the credential store is enabled
CliOff ==
    /\ disable_keyring = FALSE
    /\ cmd = NoCmd
    /\ ncmds = 0
    /\ wait_call = NoWaitCall

\* threads of the process that construct Memori objects
NumThreads == 2
Threads == 1..NumThreads

\* no construction in progress: nothing resolved, nothing seen
NoEnv == [api_key |-> None, disable_nudge |-> FALSE, tty |-> FALSE]

\* the module memori is imported and no Memori object was constructed yet
NudgeOff ==
    /\ _AUTH_NUDGE_SHOWN = FALSE
    /\ nudges = 0
    /\ c_pc = [t \in Threads |-> "idle"]
    /\ c_env = [t \in Threads |-> NoEnv]
    /\ shown_with = {}
    /\ n_constructed = 0

\* an attribution value: Python's None, or a value of a kind whose string
\* form has len characters
AttrNone == [kind |-> "None", len |-> 0]

NoAttrCall == [called |-> FALSE, entity_id |-> AttrNone, process_id |-> AttrNone,
               before_entity |-> AttrNone, before_process |-> AttrNone,
               raised |-> None]

\* Config(): entity_id and process_id start as None
AttributionOff ==
    /\ config_entity_id = AttrNone
    /\ config_process_id = AttrNone
    /\ attr_call = NoAttrCall

CmNotCalled == [how |-> "none", cls |-> None]
CmRunning == [how |-> "running", cls |-> None]
CmReturn == [how |-> "return", cls |-> None]
CmRaise(cls) == [how |-> "raise", cls |-> cls]
CmSysExit == [how |-> "exit", cls |-> "SystemExit"]

NoRequests == [start |-> 0, finalize |-> 0, delete |-> 0, ones |-> 0, after_one |-> 0]

\* the locals of a ClusterManager on which no operation runs
ClusterRest ==
    /\ cm_pc = "idle"
    /\ cm_op = None
    /\ cm_started = None
    /\ cm_i = 0
    /\ cm_finalized = -1
    /\ cm_exit = CmNotCalled
    /\ cm_hist = NoRequests
    /\ cm_api_result = NoResult
    /\ schema_built = FALSE

\* no cluster recorded locally, no operation called
ClusterOff ==
    /\ cluster_id_file = None
    /\ cm_before = None
    /\ ClusterRest

LibOff == NudgeOff /\ AttributionOff /\ ClusterOff

----------------------------------------------------------------------------
(* Initial state *)

NoRetryCall == [method |-> None, status_code |-> 0, has_retry_after |-> FALSE,
                called |-> FALSE, ret |-> FALSE]

IdleNet ==
    /\ op = None
    /\ pc = "idle"
    /\ req_headers = {}
    /\ attempts = 0
    /\ retries_total = adapter_total
    /\ log = <<>>
    /\ delays = <<>>
    /\ response = NoResponse
    /\ result = NoResult
    /\ answers = 0
    /\ nfail = 0
    /\ all503 = TRUE
    /\ quota_at = -1

InitConfig ==
    /\ config_api_key \in ConfigKeys
    /\ env_api_key \in EnvKeys
    /\ \E base \in {None, "https://custom.api.com"}, test_mode \in BOOLEAN :
           x_api_key = InitXApiKey(base, test_mode)

Init ==
    /\ InitConfig
    /\ IdleNet
    /\ retry_call = NoRetryCall
    /\ LoginOff
    /\ CliOff
    /\ LibOff

----------------------------------------------------------------------------
(* Actions *)

\* a client operation is called: headers are built, counters start
Call(o) ==
    /\ pc = "idle"
    /\ op' = o
    /\ req_headers' = headers
    /\ attempts' = 0
    /\ retries_total' = adapter_total
    /\ log' = <<>>
    /\ delays' = <<>>
    /\ response' = NoResponse
    /\ result' = NoResult
    /\ answers' = 0
    /\ nfail' = 0
    /\ all503' = TRUE
    /\ quota_at' = -1
    /\ pc' = "send"
    /\ UNCHANGED <<cliVars, loginVars, libVars, cfgVars, retry_call>>

\* the request goes out
Send ==
    /\ pc = "send"
    /\ log' = Append(log, "req")
    /\ pc' = "inflight"
    /\ UNCHANGED <<cliVars, loginVars, libVars, cfgVars, retry_call, op, req_headers, attempts, retries_total,
                   delays, response, result, answers, nfail, all503,
                   quota_at>>

\* __request_async: one turn of the while loop on outcome r
request_async(r) ==
    /\ pc = "inflight"
    /\ op \in RetryAsyncOps
    /\ Note(r)
    /\ LET res == AsyncAttempt(r) IN
       IF res.kind = "return" \/ AsyncReraise(res.exc, attempts)
       THEN /\ result' = res
            /\ pc' = "done"
            /\ UNCHANGED <<attempts, delays, log>>
       ELSE /\ delays' = Append(delays, Backoff(attempts))
            /\ log' = Append(log, "sleep")
            /\ attempts' = attempts + 1
            /\ pc' = "send"
            /\ UNCHANGED result
    /\ UNCHANGED <<cliVars, loginVars, libVars, cfgVars, retry_call, op, req_headers, retries_total>>

\* augmentation_async on outcome r
augmentation_async(r) ==
    /\ pc = "inflight"
    /\ op = AugOp
    /\ Note(r)
    /\ result' = AugmentationResult(r)
    /\ pc' = "done"
    /\ UNCHANGED <<cliVars, loginVars, libVars, cfgVars, retry_call, op, req_headers, attempts, retries_total,
                   delays, log>>

\* get / post / patch / delete: the adapter of __session retries, then the
\* operation handles the final response
sync_request(r, has_retry_after) ==
    /\ pc = "inflight"
    /\ op \in SyncOps
    /\ Note(r)
    /\ IF retries_total > 0
          /\ (r = NoResponse \/ is_retry(MethodOf(op), r.status, has_retry_after))
       THEN /\ retries_total' = retries_total - 1
            /\ log' = Append(log, "sleep")
            /\ pc' = "send"
            /\ UNCHANGED result
       ELSE /\ result' = IF r = NoResponse
                         THEN Raised(OtherError("ConnectionError"))
                         ELSE IF raise_on_status
                                 /\ is_retry(MethodOf(op), r.status, has_retry_after)
                         THEN Raised(OtherError("RetryError"))
                         ELSE SyncResult(r)
            /\ pc' = "done"
            /\ UNCHANGED <<retries_total, log>>
    /\ UNCHANGED <<cliVars, loginVars, libVars, cfgVars, retry_call, op, req_headers, attempts, delays>>

\* the caller has the result; the client is ready for the next call
Finish ==
    /\ pc = "done"
    /\ op' = None
    /\ pc' = "idle"
    /\ req_headers' = {}
    /\ attempts' = 0
    /\ retries_total' = adapter_total
    /\ log' = <<>>
    /\ delays' = <<>>
    /\ response' = NoResponse
    /\ result' = NoResult
    /\ answers' = 0
    /\ nfail' = 0
    /\ all503' = TRUE
    /\ quota_at' = -1
    /\ UNCHANGED <<cliVars, loginVars, libVars, cfgVars, retry_call>>

Next ==
    \/ \E o \in Ops : Call(o)
    \/ Send
    \/ \E r \in Outcomes : request_async(r)
    \/ \E r \in Outcomes : augmentation_async(r)
    \/ \E r \in Outcomes, h \in BOOLEAN : sync_request(r, h)
    \/ Finish

Spec == Init /\ [][Next]_vars

----------------------------------------------------------------------------
(* The retry classifier on its own: is_retry applied to every input *)

InitClassifier ==
    /\ config_api_key = None
    /\ env_api_key = None
    /\ x_api_key = InitXApiKey(None, FALSE)
    /\ IdleNet
    /\ LoginOff
    /\ CliOff
    /\ LibOff
    /\ \E m \in Methods, s \in MinStatus..MaxStatus, h \in BOOLEAN :
           retry_call = [method |-> m, status_code |-> s, has_retry_after |-> h,
                         called |-> FALSE, ret |-> FALSE]

Classify ==
    /\ ~retry_call.called
    /\ retry_call' = [retry_call EXCEPT
                         !.called = TRUE,
                         !.ret = is_retry(retry_call.method, retry_call.status_code,
                                          retry_call.has_retry_after)]
    /\ UNCHANGED <<cliVars, loginVars, libVars, cfgVars, netVars>>

NextClassifier == Classify

SpecClassifier == InitClassifier /\ [][NextClassifier]_vars

----------------------------------------------------------------------------
(* The login command: _cmd_login, TokenFlowClient, the callback server *)

\* answers of POST /v1/token-flow/create that decode to a JSON object
CreateData ==
    { {<<"token_flow_id", "abc">>, <<"code", "123456">>},
      {<<"token_flow_id", "abc">>, <<"wait_secret", "w1">>, <<"code", "123456">>,
       <<"web_url", ServiceWebUrl>>},
      {<<"flow_id", "xyz">>, <<"wait_secret", "w1">>},
      {<<"token_flow_id", "">>, <<"flow_id", "">>, <<"code", "123456">>},
      {} }

\* answers of POST /v1/token-flow/wait that decode to a JSON object
WaitData ==
    { {<<"timeout", "true">>},
      {<<"timeout", "true">>, <<"api_key", "k0">>},
      {<<"api_key", "k1">>, <<"email", "a@b.com">>},
      {<<"api_key", "k1">>},
      {<<"api_key", "">>, <<"token", "t1">>},
      {<<"token", "t1">>, <<"token_secret", "s1">>},
      {<<"token_secret", "s1">>, <<"email", "a@b.com">>},
      {<<"api_key", "k1">>, <<"token", "t1">>, <<"token_secret", "s1">>},
      {<<"api_key", "">>, <<"token", "">>, <<"token_secret", "">>},
      {<<"email", "a@b.com">>},
      {} }

\* TokenFlowClient.create: the response built from the decoded answer
TokenFlowCreateResponse(data) ==
    [token_flow_id |-> PyOr(DictGet(data, "token_flow_id"), DictGet(data, "flow_id")),
     wait_secret |-> DictGet(data, "wait_secret"),
     web_url |-> DictGet(data, "web_url"),
     code |-> DictGet(data, "code")]

\* a wait whose local timeout is the server-side window itself
WaitRequest_no_margin(token_flow_id, wait_secret, timeout_seconds) ==
    [token_flow_id |-> token_flow_id,
     wait_secret |-> IF Truthy(wait_secret) THEN wait_secret ELSE None,
     timeout |-> timeout_seconds,
     request_timeout |-> timeout_seconds]

\* TokenFlowClient.wait: the request it sends
WaitRequest(token_flow_id, wait_secret, timeout_seconds) ==
    [token_flow_id |-> token_flow_id,
     wait_secret |-> IF Truthy(wait_secret) THEN wait_secret ELSE None,
     timeout |-> timeout_seconds,
     request_timeout |-> timeout_seconds + 5]

\* dict[k] = v
DictSet(d, k, v) == {p \in d : p[1] # k} \cup {<<k, v>>}

\* urlsplit and parse_qsl on the URLs that occur
urlsplit(url) ==
    CASE url = LoginUrl -> [base |-> LoginUrl, query |-> {}]
      [] url = ServiceWebUrl ->
            [base |-> "https://memorilabs.ai/login",
             query |-> {<<"token_flow_id", "abc">>, <<"code", "123456">>}]
      [] OTHER -> [base |-> url, query |-> {}]

\* _build_login_url: the query of base_url with token_flow_id, code and source set
_build_login_url(base_url, token_flow_id, code) ==
    LET parts == urlsplit(base_url)
        q1 == DictSet(parts.query, "token_flow_id", token_flow_id)
        q2 == IF Truthy(code) THEN DictSet(q1, "code", code) ELSE q1
    IN  [base |-> parts.base, query |-> DictSet(q2, "source", "cli")]

\* _cmd_login: web_url, the URL opened in the browser and printed
WebUrl(resp) ==
    IF Truthy(resp.web_url)
    THEN urlsplit(resp.web_url)
    ELSE _build_login_url(LoginUrl, resp.token_flow_id, resp.code)

\* a port read from the arguments instead of the bound socket
localhost_port_configured(srv) == ConfiguredPort

\* _cmd_login: port = server.server_address[1], sent as localhost_port
localhost_port(srv) == srv.port

\* a wait call that leaves the wait secret out
WaitCallOf_no_secret(resp, timeout_seconds) ==
    [token_flow_id |-> resp.token_flow_id, wait_secret |-> None,
     timeout |-> timeout_seconds, request_timeout |-> timeout_seconds + 5]

\* _cmd_login: the wait call of one polling round
WaitCallOf(resp, timeout_seconds) ==
    WaitRequest(resp.token_flow_id, resp.wait_secret, timeout_seconds)

\* _start_token_flow_server: bind the configured port, or any port when that fails
_start_token_flow_server(port, free) ==
    [port |-> IF free THEN port ELSE OsAssignedPort,
     serving |-> TRUE, closed |-> FALSE,
     shutdown_calls |-> 0, close_calls |-> 0, joined |-> FALSE]

\* server.shutdown(): stops serve_forever; a no-op on a stopped server
Shutdown(srv) == [srv EXCEPT !.serving = FALSE, !.shutdown_calls = @ + 1]

\* server.server_close(): closes the listening socket
ServerClose(srv) == [srv EXCEPT !.closed = TRUE, !.close_calls = @ + 1]

\* server.shutdown(); server.server_close()
Teardown(srv) == ServerClose(Shutdown(srv))

\* a cleanup that forgets to close the socket
CleanupOnCreateFailure_no_close(srv) == Shutdown(srv)

\* _cmd_login: the cleanup when create fails or returns no id
CleanupOnCreateFailure(srv) == Teardown(srv)

\* _cmd_login: the finally clause of the polling loop
FinallyCleanup(srv) == [Teardown(srv) EXCEPT !.joined = TRUE]

\* _cmd_login: an except clause of the polling loop, then the finally clause
ExceptCleanup(srv) == FinallyCleanup(Teardown(srv))

\* a flow-id test that takes the empty string for an id
HasFlowId_not_none(resp) == resp.token_flow_id # None

\* _cmd_login: create returned a token flow id
HasFlowId(resp) == Truthy(resp.token_flow_id)

\* a command that goes on to the browser without a flow id
AfterCreate_no_return(resp) == "browser"

\* _cmd_login: where the command goes after create returned
AfterCreate(resp) == IF HasFlowId(resp) THEN "browser" ELSE "exited"

\* a loop that stops at the first answer, timeout or not
IsTimeout_never(payload) == FALSE

\* _cmd_login: wait_payload.get("timeout") says the flow is still pending
IsTimeout(payload) == Truthy(DictGet(payload, "timeout"))

\* a credential taken from the email field when the three fields are empty
PayloadApiKey_or_email(payload) ==
    PyOr(PyOr(PyOr(DictGet(payload, "api_key"), DictGet(payload, "token")),
              DictGet(payload, "token_secret")),
         DictGet(payload, "email"))

\* _cmd_login: the credential taken from the payload
PayloadApiKey(payload) ==
    PyOr(PyOr(DictGet(payload, "api_key"), DictGet(payload, "token")),
         DictGet(payload, "token_secret"))

\* save_api_key: what it leaves in the store and whether it raises
save_api_key(kr, mode, api_key, email) ==
    IF ~Truthy(api_key)
    THEN [raised |-> TRUE, keyring |-> kr, writes |-> 0]
    ELSE IF mode \in {"unavailable", "key_write_fails"}
    THEN [raised |-> TRUE, keyring |-> kr, writes |-> 0]
    ELSE IF ~Truthy(email)
    THEN [raised |-> FALSE, keyring |-> [kr EXCEPT !.api_key = api_key], writes |-> 1]
    ELSE IF mode = "email_write_fails"
    THEN [raised |-> TRUE, keyring |-> [kr EXCEPT !.api_key = api_key], writes |-> 1]
    ELSE [raised |-> FALSE, keyring |-> [api_key |-> api_key, email |-> email],
          writes |-> 2]

CorsHeader == <<"Access-Control-Allow-Origin", "*">>

\* a pending answer without the CORS header
PendingHeaders_no_cors == {}

\* do_GET: the headers of the 503 answer
PendingHeaders == {CorsHeader}

\* do_GET: the answer for the token_flow_id it read
HandlerAnswer(token_flow_id) ==
    IF ~Truthy(token_flow_id)
    THEN [seen |-> token_flow_id, status |-> 503, body |-> "pending",
          headers |-> PendingHeaders]
    ELSE [seen |-> token_flow_id, status |-> 200, body |-> token_flow_id,
          headers |-> {<<"Content-Type", "text/plain; charset=utf-8">>, CorsHeader}]

Enter(st) == /\ l_state' = st
             /\ l_trace' = Append(l_trace, st)

InitLogin ==
    /\ config_api_key = None
    /\ env_api_key = None
    /\ x_api_key = InitXApiKey(None, FALSE)
    /\ IdleNet
    /\ retry_call = NoRetryCall
    /\ l_pc = "init"
    /\ port_free \in BOOLEAN
    /\ keyring \in {EmptyKeyring, OldKeyring}
    /\ store_mode \in StoreModes
    /\ LoginRest
    /\ CliOff
    /\ LibOff

\* _cmd_login up to the create call: the callback server is started
L_Start ==
    /\ l_pc = "init"
    /\ server' = _start_token_flow_server(ConfiguredPort, port_free)
    /\ Enter("starting")
    /\ l_pc' = "create"
    /\ UNCHANGED <<l_exit, port_free, flow_cell, cell_writes, create_response,
                   create_port, wait_log, n_timeouts, wait_payload, events,
                   browser_url, keyring, store_mode, store_writes,
                   srv_pc, srv_local, gets>>
    /\ UNCHANGED <<libVars, cfgVars, netVars, retry_call, cliVars>>

\* create raised (network error, non-2xx answer, undecodable body)
L_CreateFails ==
    /\ l_pc = "create"
    /\ srv_pc = "idle"
    /\ create_port' = localhost_port(server)
    /\ events' = Append(events, "create")
    /\ server' = CleanupOnCreateFailure(server)
    /\ Enter("failed")
    /\ l_exit' = Return(1, 159)
    /\ l_pc' = "exited"
    /\ UNCHANGED <<port_free, flow_cell, cell_writes, create_response,
                   wait_log, n_timeouts, wait_payload,
                   browser_url, keyring, store_mode, store_writes,
                   srv_pc, srv_local, gets>>
    /\ UNCHANGED <<libVars, cfgVars, netVars, retry_call, cliVars>>

\* create returned: without an id the command fails, with one the id is
\* published to the callback server
L_Create(data) ==
    /\ l_pc = "create"
    /\ create_port' = localhost_port(server)
    /\ events' = Append(events, "create")
    /\ LET resp == TokenFlowCreateResponse(data) IN
       /\ create_response' = resp
       /\ l_pc' = AfterCreate(resp)
       /\ IF HasFlowId(resp)
          THEN /\ flow_cell' = resp.token_flow_id
               /\ cell_writes' = Append(cell_writes, "main")
               /\ Enter("awaiting_browser_completion")
               /\ UNCHANGED <<server, l_exit>>
          ELSE /\ srv_pc = "idle"
               /\ server' = CleanupOnCreateFailure(server)
               /\ Enter("failed")
               /\ l_exit' = Return(1, 165)
               /\ UNCHANGED <<flow_cell, cell_writes>>
    /\ UNCHANGED <<port_free, wait_log, n_timeouts, wait_payload,
                   browser_url, keyring, store_mode, store_writes,
                   srv_pc, srv_local, gets>>
    /\ UNCHANGED <<libVars, cfgVars, netVars, retry_call, cliVars>>

\* the browser step: the URL is opened (or only printed when that fails)
L_Browser(opened) ==
    /\ l_pc = "browser"
    /\ browser_url' = WebUrl(create_response)
    /\ events' = Append(events, "browser")
    /\ Enter("polling")
    /\ l_pc' = "wait"
    /\ UNCHANGED <<l_exit, port_free, server, flow_cell, cell_writes,
                   create_response, create_port, wait_log, n_timeouts, wait_payload,
                   keyring, store_mode, store_writes,
                   srv_pc, srv_local, gets>>
    /\ UNCHANGED <<libVars, cfgVars, netVars, retry_call, cliVars>>

\* an interrupt or an exception outside the try blocks: create interrupted,
\* or the browser step interrupted or raising; nothing catches it
L_Uncaught(cls) ==
    /\ \/ l_pc = "create" /\ cls = "KeyboardInterrupt"
       \/ l_pc = "browser"
    /\ l_exit' = Uncaught(cls)
    /\ l_pc' = "exited"
    /\ UNCHANGED <<l_state, l_trace, port_free, server, flow_cell, cell_writes,
                   create_response, create_port, wait_log, n_timeouts, wait_payload,
                   events, browser_url, keyring, store_mode, store_writes,
                   srv_pc, srv_local, gets>>
    /\ UNCHANGED <<libVars, cfgVars, netVars, retry_call, cliVars>>

\* one round of the polling loop: wait returned a payload
L_Wait(payload) ==
    /\ l_pc = "wait"
    /\ IsTimeout(payload) => n_timeouts < MaxRounds
    /\ wait_log' = Append(wait_log, WaitCallOf(create_response, WaitTimeoutSeconds))
    /\ events' = Append(events, "wait")
    /\ wait_payload' = payload
    /\ n_timeouts' = IF Truthy(DictGet(payload, "timeout"))
                     THEN n_timeouts + 1 ELSE n_timeouts
    /\ IF IsTimeout(payload)
       THEN UNCHANGED <<l_pc, server>>
       ELSE /\ srv_pc = "idle"
            /\ server' = FinallyCleanup(server)
            /\ l_pc' = "extract"
    /\ UNCHANGED <<l_state, l_trace, l_exit, port_free, flow_cell, cell_writes,
                   create_response, create_port, browser_url, keyring, store_mode,
                   store_writes, srv_pc, srv_local, gets>>
    /\ UNCHANGED <<libVars, cfgVars, netVars, retry_call, cliVars>>

\* the wait call raised (HTTP error, network error) or was interrupted
L_WaitRaises(cls) ==
    /\ l_pc = "wait"
    /\ srv_pc = "idle"
    /\ wait_log' = Append(wait_log, WaitCallOf(create_response, WaitTimeoutSeconds))
    /\ events' = Append(events, "wait")
    /\ server' = ExceptCleanup(server)
    /\ Enter(IF cls = "KeyboardInterrupt" THEN "cancelled" ELSE "failed")
    /\ l_exit' = Return(1, IF cls = "KeyboardInterrupt" THEN 219 ELSE 224)
    /\ l_pc' = "exited"
    /\ UNCHANGED <<port_free, flow_cell, cell_writes, create_response, create_port,
                   n_timeouts, wait_payload, browser_url, keyring, store_mode,
                   store_writes, srv_pc, srv_local, gets>>
    /\ UNCHANGED <<libVars, cfgVars, netVars, retry_call, cliVars>>

\* after the loop: the credential is taken from the payload and saved
L_Finish ==
    /\ l_pc = "extract"
    /\ LET api_key == PayloadApiKey(wait_payload)
           email == DictGet(wait_payload, "email")
           saved == save_api_key(keyring, store_mode, api_key, email) IN
       IF ~Truthy(api_key)
       THEN /\ Enter("failed")
            /\ l_exit' = Return(1, 239)
            /\ UNCHANGED <<keyring, store_writes, events>>
       ELSE /\ events' = Append(events, "save")
            /\ keyring' = saved.keyring
            /\ store_writes' = store_writes + saved.writes
            /\ IF saved.raised
               THEN Enter("failed") /\ l_exit' = Return(1, 246)
               ELSE Enter("succeeded") /\ l_exit' = Return(0, 254)
    /\ l_pc' = "exited"
    /\ UNCHANGED <<port_free, server, flow_cell, cell_writes, create_response,
                   create_port, wait_log, n_timeouts, wait_payload, browser_url,
                   store_mode, srv_pc, srv_local, gets>>
    /\ UNCHANGED <<libVars, cfgVars, netVars, retry_call, cliVars>>

\* server thread, do_GET: the handler reads the shared token_flow_id
do_GET_read ==
    /\ l_exit.how = "running"
    /\ server.serving
    /\ srv_pc = "idle"
    /\ Len(gets) < MaxGets
    /\ srv_local' = flow_cell
    /\ srv_pc' = "handling"
    /\ UNCHANGED <<l_pc, l_state, l_exit, port_free, server, flow_cell, cell_writes,
                   create_response, create_port, wait_log, n_timeouts, wait_payload,
                   events, l_trace, browser_url, keyring, store_mode, store_writes, gets>>
    /\ UNCHANGED <<libVars, cfgVars, netVars, retry_call, cliVars>>

\* server thread, do_GET: the handler answers
do_GET_respond ==
    /\ l_exit.how = "running"
    /\ srv_pc = "handling"
    /\ gets' = Append(gets, HandlerAnswer(srv_local))
    /\ srv_pc' = "idle"
    /\ UNCHANGED <<l_pc, l_state, l_exit, port_free, server, flow_cell, cell_writes,
                   create_response, create_port, wait_log, n_timeouts, wait_payload,
                   events, l_trace, browser_url, keyring, store_mode, store_writes,
                   srv_local>>
    /\ UNCHANGED <<libVars, cfgVars, netVars, retry_call, cliVars>>

MainStep ==
    \/ L_Start
    \/ L_CreateFails
    \/ \E data \in CreateData : L_Create(data)
    \/ \E opened \in BOOLEAN : L_Browser(opened)
    \/ \E cls \in {"KeyboardInterrupt", "Error"} : L_Uncaught(cls)
    \/ \E payload \in WaitData : L_Wait(payload)
    \/ \E cls \in {"KeyboardInterrupt", "HTTPError"} : L_WaitRaises(cls)
    \/ L_Finish

NextLogin ==
    \/ MainStep
    \/ do_GET_read
    \/ do_GET_respond

SpecLogin == InitLogin /\ [][NextLogin]_vars

\* the main thread keeps running, and a GET being handled is answered (shutdown
\* waits for the request in progress)
SpecLoginFair == SpecLogin /\ WF_vars(MainStep) /\ WF_vars(do_GET_respond)

----------------------------------------------------------------------------
(* TokenFlowClient.wait on its own *)

\* requests: the call is cut off when nothing arrived within the local timeout
LocalTimeout(request_timeout, elapsed) == elapsed >= request_timeout

InitWait ==
    /\ config_api_key = None
    /\ env_api_key = None
    /\ x_api_key = InitXApiKey(None, FALSE)
    /\ IdleNet
    /\ retry_call = NoRetryCall
    /\ LoginOff
    /\ CliOff
    /\ LibOff

\* wait(token_flow_id, wait_secret, timeout_seconds), answered by the service
\* answered_at seconds later, within the window it was given
TokenFlowWait(token_flow_id, wait_secret, timeout_seconds, answered_at) ==
    /\ answered_at <= timeout_seconds
    /\ LET req == WaitRequest(token_flow_id, wait_secret, timeout_seconds) IN
       wait_call' = [timeout_seconds |-> timeout_seconds,
                     token_flow_id |-> req.token_flow_id,
                     wait_secret |-> req.wait_secret,
                     timeout |-> req.timeout,
                     request_timeout |-> req.request_timeout,
                     answered_at |-> answered_at,
                     cut_off |-> LocalTimeout(req.request_timeout, answered_at)]
    /\ UNCHANGED <<disable_keyring, cmd, ncmds>>
    /\ UNCHANGED <<loginVars, libVars, cfgVars, netVars, retry_call>>

NextWait ==
    \E token_flow_id \in {"abc", "xyz"}, wait_secret \in {None, "", "w1"},
       timeout_seconds \in 0..MaxTimeoutSeconds, answered_at \in 0..MaxTimeoutSeconds :
          TokenFlowWait(token_flow_id, wait_secret, timeout_seconds, answered_at)

SpecWait == InitWait /\ [][NextWait]_vars

----------------------------------------------------------------------------
(* The credential resolver and the status and logout commands *)

\* _keyring_module: None when the import fails
_keyring_module(mode) == IF mode = "unavailable" THEN None ELSE "keyring"

\* a resolver that asks the credential store first
resolve_api_key_store_first(env, disabled, mode, kr) ==
    IF ~disabled /\ _keyring_module(mode) # None /\ mode # "read_fails"
       /\ Truthy(kr.api_key)
    THEN <<kr.api_key, "keyring">>
    ELSE IF Truthy(env) THEN <<env, "env">>
    ELSE <<None, None>>

\* resolve_api_key: (key, source)
resolve_api_key(env, disabled, mode, kr) ==
    IF Truthy(env) THEN <<env, "env">>
    ELSE IF disabled THEN <<None, None>>
    ELSE IF _keyring_module(mode) = None THEN <<None, None>>
    ELSE IF mode = "read_fails" THEN <<None, None>>
    ELSE IF Truthy(kr.api_key) THEN <<kr.api_key, "keyring">>
    ELSE <<None, None>>

\* get_account_email
get_account_email(disabled, mode, kr) ==
    IF disabled THEN None
    ELSE IF _keyring_module(mode) = None THEN None
    ELSE IF mode = "read_fails" THEN None
    ELSE kr.email

\* a logout that leaves the account email in the store
delete_api_key_keeps_email(mode, kr) ==
    IF _keyring_module(mode) = None
    THEN [raised |-> TRUE, keyring |-> kr]
    ELSE IF mode = "delete_fails"
    THEN [raised |-> FALSE, keyring |-> kr]
    ELSE [raised |-> FALSE, keyring |-> [kr EXCEPT !.api_key = None]]

\* delete_api_key: what it leaves in the store and whether it raises
delete_api_key(mode, kr) ==
    IF _keyring_module(mode) = None
    THEN [raised |-> TRUE, keyring |-> kr]
    ELSE IF mode = "delete_fails"
    THEN [raised |-> FALSE, keyring |-> kr]
    ELSE [raised |-> FALSE, keyring |-> EmptyKeyring]

\* the command that ran before the one starting now
PrevCommand ==
    IF l_pc = "exited"
    THEN [name |-> "login", code |-> l_exit.code,
          key |-> IF l_state = "succeeded" THEN PayloadApiKey(wait_payload) ELSE None]
    ELSE [name |-> cmd.name, code |-> cmd.code, key |-> cmd.key]

\* a new process: nothing of an earlier login command is left but the store
ResetLogin(at) ==
    /\ l_pc' = at
    /\ l_state' = None
    /\ l_exit' = NoExit
    /\ server' = NoServer
    /\ flow_cell' = None
    /\ cell_writes' = <<>>
    /\ create_response' = NoCreateResponse
    /\ create_port' = 0
    /\ wait_log' = <<>>
    /\ n_timeouts' = 0
    /\ wait_payload' = {}
    /\ events' = <<>>
    /\ l_trace' = <<>>
    /\ browser_url' = NoUrl
    /\ store_writes' = 0
    /\ srv_pc' = "idle"
    /\ srv_local' = None
    /\ gets' = <<>>
    /\ UNCHANGED <<port_free, store_mode>>

CanStartCommand == l_pc \in {"off", "exited"} /\ ncmds < MaxCommands

\* a call of resolve_api_key (as _config_with_auth makes it)
resolve ==
    /\ CanStartCommand
    /\ LET r == resolve_api_key(env_api_key, disable_keyring, store_mode, keyring)
           prev == PrevCommand IN
       cmd' = [name |-> "resolve", code |-> 0, key |-> r[1], source |-> r[2],
               email |-> None, report |-> None, raised |-> FALSE,
               prev |-> prev.name, prev_code |-> prev.code, prev_key |-> prev.key]
    /\ ncmds' = ncmds + 1
    /\ ResetLogin("off")
    /\ UNCHANGED <<keyring, disable_keyring, wait_call>>
    /\ UNCHANGED <<libVars, cfgVars, netVars, retry_call>>

\* _cmd_status
_cmd_status ==
    /\ CanStartCommand
    /\ LET r == resolve_api_key(env_api_key, disable_keyring, store_mode, keyring)
           email == get_account_email(disable_keyring, store_mode, keyring)
           prev == PrevCommand IN
       cmd' = [name |-> "status",
               code |-> IF ~Truthy(r[1]) THEN 1 ELSE 0,
               key |-> r[1], source |-> r[2],
               email |-> IF ~Truthy(r[1]) \/ ~Truthy(email) THEN None ELSE email,
               report |-> IF ~Truthy(r[1]) THEN "not_logged_in" ELSE "authenticated",
               raised |-> FALSE,
               prev |-> prev.name, prev_code |-> prev.code, prev_key |-> prev.key]
    /\ ncmds' = ncmds + 1
    /\ ResetLogin("off")
    /\ UNCHANGED <<keyring, disable_keyring, wait_call>>
    /\ UNCHANGED <<libVars, cfgVars, netVars, retry_call>>

\* _cmd_logout
_cmd_logout ==
    /\ CanStartCommand
    /\ LET d == delete_api_key(store_mode, keyring)
           prev == PrevCommand IN
       /\ keyring' = d.keyring
       /\ cmd' = [name |-> "logout", code |-> 0, key |-> None, source |-> None,
                  email |-> None,
                  report |-> IF d.raised THEN "failed_to_clear" ELSE "logged_out",
                  raised |-> d.raised,
                  prev |-> prev.name, prev_code |-> prev.code, prev_key |-> prev.key]
    /\ ncmds' = ncmds + 1
    /\ ResetLogin("off")
    /\ UNCHANGED <<disable_keyring, wait_call>>
    /\ UNCHANGED <<libVars, cfgVars, netVars, retry_call>>

\* main dispatching to _cmd_login
login_start ==
    /\ CanStartCommand
    /\ ncmds' = ncmds + 1
    /\ ResetLogin("init")
    /\ UNCHANGED <<keyring, disable_keyring, cmd, wait_call>>
    /\ UNCHANGED <<libVars, cfgVars, netVars, retry_call>>

StoredCredentials ==
    {EmptyKeyring, OldKeyring,
     [api_key |-> "old-key", email |-> None], [api_key |-> "", email |-> "old@b.com"]}

InitAuth ==
    /\ config_api_key = None
    /\ env_api_key \in EnvKeys
    /\ x_api_key = InitXApiKey(None, FALSE)
    /\ IdleNet
    /\ retry_call = NoRetryCall
    /\ l_pc = "off"
    /\ port_free = TRUE
    /\ keyring \in StoredCredentials
    /\ store_mode \in AuthStoreModes
    /\ LoginRest
    /\ LibOff
    /\ disable_keyring \in BOOLEAN
    /\ cmd = NoCmd
    /\ ncmds = 0
    /\ wait_call = NoWaitCall

NextAuth ==
    \/ resolve
    \/ _cmd_status
    \/ _cmd_logout

SpecAuth == InitAuth /\ [][NextAuth]_vars

\* commands run one after the other on one credential store
InitCli ==
    /\ config_api_key = None
    /\ env_api_key = None
    /\ x_api_key = InitXApiKey(None, FALSE)
    /\ IdleNet
    /\ retry_call = NoRetryCall
    /\ l_pc = "off"
    /\ port_free = TRUE
    /\ keyring \in {EmptyKeyring, OldKeyring}
    /\ store_mode \in AuthStoreModes
    /\ LoginRest
    /\ CliOff
    /\ LibOff

NextCli ==
    \/ login_start
    \/ MainStep
    \/ NextAuth

SpecCli == InitCli /\ [][NextCli]_vars

----------------------------------------------------------------------------
(* Properties *)

\* a header (or key) is present in a dict
HasKey(d, k) == \E p \in d : p[1] = k

NumRequests == Cardinality({i \in DOMAIN log : log[i] = "req"})
NumSleeps == Cardinality({i \in DOMAIN log : log[i] = "sleep"})

\* an anonymous 403/429 was answered during the call in progress
SawAnonymousQuota == quota_at # -1

IsHttpError(r) == r # NoResponse /\ r.status >= 400

\* the answers an operation treats as a quota case instead of an HTTP error
HandledAsQuota(o, r) ==
    /\ r.status \in {403, 429}
    /\ \/ _is_anonymous
       \/ (o = AugOp /\ r.status = 429)

\* C1: when the caller is anonymous and a request of the call was answered 403
\* or 429, the call ends by raising QuotaExceededError, whatever the operation.
C1_AnonymousQuotaRaisesQuotaExceeded ==
    (pc = "done" /\ SawAnonymousQuota)
        => (result.kind = "raise" /\ result.exc.cls = "QuotaExceededError")

\* C2: QuotaExceeded is terminal: after an anonymous 403/429 answer the call
\* sends no further request and takes no back-off delay.
C2_QuotaIsTerminal ==
    SawAnonymousQuota => (Len(log) = quota_at /\ pc = "done")

C4_RetryBudget ==
    op \in RetryAsyncOps =>
        /\ attempts <= 5
        /\ Len(delays) <= 5
        /\ NumSleeps = Len(delays)
        /\ pc = "done" =>
              /\ result = AsyncAttempt(response)
              /\ \/ /\ result.kind = "return"
                    /\ result.value = json_loads(response.text).val
                 \/ /\ result.kind = "raise"
                    /\ result.exc # NoExc

C4_Witness ==
    /\ op \in RetryAsyncOps /\ pc = "done"
    /\ attempts = 5 /\ Len(delays) = 5
    /\ result.kind = "raise"

\* C5 as stated: with every request answered 503 an async call raises after
\* exactly 5 requests.
C5_Always503RaisesAfter5Requests ==
    (op \in RetryAsyncOps /\ pc = "done" /\ all503)
        => (result = Raised(HTTPError(503)) /\ NumRequests = 5)

\* C5 amended: with every request answered 503 an async call raises the 503
\* after exactly 6 requests (the first one and 5 retries) and 5 delays.
C5_Always503RaisesAfter6Requests ==
    (op \in RetryAsyncOps /\ pc = "done" /\ all503)
        => /\ result = Raised(HTTPError(503))
           /\ NumRequests = 6
           /\ Len(delays) = 5

C5_Witness ==
    /\ op \in RetryAsyncOps /\ pc = "done" /\ all503
    /\ answers = 6 /\ result = Raised(HTTPError(503))

\* an answer the async loop returns: no error status and a body that decodes
IsSuccess(r) == r # NoResponse /\ r.status < 400 /\ aiohttp_json(r).err = None

ExpectedDelays == <<1, 2, 4, 8, 16>>

\* requests and delays alternate, starting with a request
Alternates(l) ==
    \A i \in DOMAIN l : l[i] = (IF i % 2 = 1 THEN "req" ELSE "sleep")

\* C6: after k failures (5xx answers or requests that raised), k <= 5, followed
\* by a success, an async call returns the body after exactly k+1 requests and
\* the k delays 1, 2, 4, 8, 16; requests and delays alternate and the call
\* does not give up while only k <= 5 failures were seen.
C6_FailKThenSucceed ==
    op \in RetryAsyncOps =>
        /\ Alternates(log)
        /\ (answers >= 1 /\ nfail = answers /\ answers <= 5) => pc \in {"send", "inflight"}
        /\ (answers >= 1 /\ nfail = answers - 1 /\ IsSuccess(response)) =>
              /\ pc = "done"
              /\ result = Returned(json_loads(response.text).val)
              /\ NumRequests = nfail + 1
              /\ delays = SubSeq(ExpectedDelays, 1, nfail)
              /\ log[Len(log)] = "req"

C6_Witness ==
    /\ op \in RetryAsyncOps /\ pc = "done"
    /\ nfail = 5 /\ answers = 6 /\ IsSuccess(response)
    /\ delays = <<1, 2, 4, 8, 16>>
    /\ result.kind = "return"

\* C7: in the async path an HTTP error answer with a status outside 500..599
\* that is not a quota case ends the call at once with that HTTP error: nothing
\* is sent and no delay is taken after it, and when it is the first answer the
\* call has sent exactly one request and taken no delay.
C7_ClientErrorNotRetried ==
    (/\ op \in RetryAsyncOps
     /\ IsHttpError(response)
     /\ (response.status < 500 \/ response.status > 599)
     /\ ~HandledAsQuota(op, response))
        => /\ pc = "done"
           /\ result = Raised(HTTPError(response.status))
           /\ log[Len(log)] = "req"
           /\ answers = 1 => (log = <<"req">> /\ delays = <<>>)

C7_Witness ==
    /\ op \in RetryAsyncOps /\ pc = "done"
    /\ response.status = 404 /\ log = <<"req">> /\ delays = <<>>
    /\ result = Raised(HTTPError(404))

\* C8: is_retry answers true exactly for the status codes 500..599, whatever
\* the method and the has_retry_after flag.
C8_RetryClassifier ==
    retry_call.called =>
        (retry_call.ret <=> retry_call.status_code \in 500..599)

C8_Witness ==
    /\ retry_call.called /\ retry_call.ret
    /\ retry_call.status_code = 599
    /\ retry_call.method = "DELETE" /\ retry_call.has_retry_after

\* C9: the headers of a request always carry X-Memori-API-Key, and carry
\* Authorization exactly when the caller is classified as not anonymous.
C9_BearerIffNotAnonymous ==
    pc # "idle" =>
        /\ HasKey(req_headers, "X-Memori-API-Key")
        /\ HasKey(req_headers, "Authorization") <=> ~_is_anonymous

\* C10: when the final answer of a call has an error status that is not a quota
\* case, the call raises the HTTP error of that answer.
C10_HttpErrorsPropagate ==
    (pc = "done" /\ IsHttpError(response) /\ ~HandledAsQuota(op, response))
        => result = Raised(HTTPError(response.status))

C10_Witness ==
    /\ pc = "done" /\ op \in SyncOps
    /\ response.status = 404
    /\ result = Raised(HTTPError(404))

\* the body of an answer as the client library of the operation decodes it
DecodedBy(o, r) == IF o \in SyncOps THEN requests_json(r) ELSE aiohttp_json(r)

\* C11: a QuotaExceededError raised to an anonymous caller carries the message
\* field of the answer when the body decodes and the field is present and
\* non-empty, and the fixed default message in every other case; the sync
\* handler, the async retry loop and augmentation_async select it the same way.
C11_QuotaMessage ==
    (pc = "done" /\ result.kind = "raise" /\ result.exc.cls = "QuotaExceededError")
        => LET d == DecodedBy(op, response) IN
           /\ _is_anonymous
           /\ response.status \in {403, 429}
           /\ result.exc.message =
                 IF d.err = None /\ HasKey(d.val, "message")
                    /\ DictGet(d.val, "message") # ""
                 THEN DictGet(d.val, "message")
                 ELSE "Quota reached. Run memori login to upgrade."

C11_Witness ==
    /\ pc = "done" /\ op \in RetryAsyncOps
    /\ response.text = TextEmptyMessage /\ response.ctype = JsonType
    /\ result.exc.cls = "QuotaExceededError"
    /\ result.exc.message = "Quota reached. Run memori login to upgrade."

----------------------------------------------------------------------------
(* Properties of the login command *)

Terminal == {"succeeded", "failed", "cancelled"}
LoginExited == l_pc = "exited"
ServerTornDown == ~server.serving /\ server.closed

\* the last wait returned a payload that ended the polling loop
LoopLeft == LoginExited /\ l_exit.line \in {239, 246, 254}

\* the first non-empty field among api_key, token, token_secret ("None": none)
FirstNonEmpty(payload) ==
    LET filled == { k \in {"api_key", "token", "token_secret"} :
                      HasKey(payload, k) /\ DictGet(payload, k) \notin {None, ""} }
    IN  IF "api_key" \in filled THEN DictGet(payload, "api_key")
        ELSE IF "token" \in filled THEN DictGet(payload, "token")
        ELSE IF "token_secret" \in filled THEN DictGet(payload, "token_secret")
        ELSE None

\* C12 (as stated): when create returned a flow id and wait answered N timeouts
\* and then a payload carrying a credential, wait was called N+1 times, the
\* states were starting, awaiting_browser_completion, polling, succeeded, the
\* exit code is 0 and the store holds the credential of the final payload.
C12_LoginSuccessScenario ==
    (LoopLeft /\ FirstNonEmpty(wait_payload) # None)
    => /\ Len(wait_log) = n_timeouts + 1
       /\ l_trace = <<"starting", "awaiting_browser_completion", "polling", "succeeded">>
       /\ l_exit.code = 0
       /\ keyring.api_key = FirstNonEmpty(wait_payload)

\* C13: when create fails or returns no flow id the command goes from starting
\* to failed with exit code 1, the callback server is shut down and closed, and
\* neither the browser step, nor wait, nor a store write happened.
C13_CreateFailure ==
    (LoginExited /\ l_exit.how = "return" /\ ~Truthy(create_response.token_flow_id))
    => /\ l_trace = <<"starting", "failed">>
       /\ l_exit.code = 1
       /\ ServerTornDown
       /\ events = <<"create">>
       /\ browser_url = NoUrl
       /\ wait_log = <<>>
       /\ store_writes = 0

C13_Witness ==
    /\ LoginExited
    /\ l_exit.line = 165
    /\ create_response.token_flow_id = ""
    /\ server.close_calls = 1

\* C14 (as stated): an interrupt while polling ends the command in cancelled
\* with exit code 1, and shutdown of the callback server was performed exactly
\* once.
C14_InterruptWhilePolling ==
    (LoginExited /\ l_exit.line = 219)
    => /\ l_state = "cancelled"
       /\ l_exit.code = 1
       /\ server.shutdown_calls = 1

\* C15 (as stated): on every exit after the server was started (an interrupt
\* in starting aside) the callback server is shut down and closed, and an
\* interrupt in awaiting_browser_completion or polling yields cancelled.
C15_ServerTornDownOnEveryExit ==
    (LoginExited /\ ~(l_exit.how = "raise" /\ l_state = "starting"))
    => /\ ServerTornDown
       /\ (l_exit.cls = "KeyboardInterrupt" \/ l_exit.line = 219)
             => l_state = "cancelled"

Rank(st) == CASE st = "starting" -> 1
              [] st = "awaiting_browser_completion" -> 2
              [] st = "polling" -> 3
              [] OTHER -> 4

Order(ev) == CASE ev = "create" -> 1
               [] ev = "browser" -> 2
               [] ev = "wait" -> 3
               [] OTHER -> 4

ForwardOnly ==
    /\ \A i, j \in 1..Len(l_trace) : i < j => Rank(l_trace[i]) < Rank(l_trace[j])
    /\ l_trace # <<>> => l_trace[1] = "starting" /\ l_state = l_trace[Len(l_trace)]
    /\ \A i, j \in 1..Len(events) :
          i < j => /\ Order(events[i]) <= Order(events[j])
                   /\ events[i] = events[j] => events[i] = "wait"
    /\ events # <<>> => events[1] = "create"
    /\ (\E i \in 1..Len(events) : events[i] = "wait")
          => \E j \in 1..Len(events) : events[j] = "browser"

NothingAfterTerminal ==
    l_state \in Terminal
    => /\ events' = events
       /\ l_trace' = l_trace
       /\ wait_log' = wait_log
       /\ browser_url' = browser_url
       /\ keyring' = keyring
       /\ store_writes' = store_writes

\* C16: the login command only moves forward through starting,
\* awaiting_browser_completion, polling and one terminal state; create comes
\* before the browser step, the browser step before the first wait, the store
\* write after the last wait, and nothing is done after a terminal state.
C16_ForwardOnly == []ForwardOnly /\ [][NothingAfterTerminal]_vars

C16_Witness ==
    /\ l_state = "succeeded"
    /\ events = <<"create", "browser", "wait", "wait", "save">>

\* C17: after every timeout answer the command is polling again, whatever the
\* number of rounds so far; and once the service answers something else, fails,
\* or an interrupt arrives, the command reaches succeeded, failed or cancelled.
C17_PollsUntilAnswered ==
    /\ [](( /\ l_exit.how = "running"
            /\ events # <<>>
            /\ events[Len(events)] = "wait"
            /\ Truthy(DictGet(wait_payload, "timeout")) )
          => l_pc = "wait" /\ l_state = "polling" /\ server.serving)
    /\ (l_state = "polling") ~> (l_state \in Terminal)

C17_Witness ==
    /\ l_pc = "wait"
    /\ n_timeouts = MaxRounds
    /\ Len(wait_log) = MaxRounds

\* C18 (as stated): from a non-timeout payload the credential is the first
\* non-empty of api_key, token, token_secret; the command ends in succeeded if
\* there is one, and in failed with exit 1 and nothing persisted if there is
\* none.
C18_CredentialDecidesOutcome ==
    LoopLeft
    => IF FirstNonEmpty(wait_payload) # None
       THEN l_state = "succeeded" /\ keyring.api_key = FirstNonEmpty(wait_payload)
       ELSE l_state = "failed" /\ l_exit.code = 1 /\ store_writes = 0

\* C19: a GET is answered 503 while the flow id is unknown and 200 with the id
\* of create as body once it is known, both with Access-Control-Allow-Origin: *;
\* after a 200 no later GET is answered 503 or with another id.
C19_CallbackAnswers ==
    /\ \A i \in 1..Len(gets) :
          /\ CorsHeader \in gets[i].headers
          /\ IF gets[i].seen = None
             THEN gets[i].status = 503
             ELSE /\ gets[i].status = 200
                  /\ gets[i].body = create_response.token_flow_id
                  /\ Truthy(gets[i].body)
    /\ \A i, j \in 1..Len(gets) :
          (i < j /\ gets[i].status = 200)
          => gets[j].status = 200 /\ gets[j].body = gets[i].body

C19_Witness ==
    /\ Len(gets) = 2
    /\ gets[1].status = 503
    /\ gets[2].status = 200
    /\ gets[2].body = "abc"

\* C20: the flow-id cell is written exactly once, by the main thread, after
\* create returned a non-empty id, and never otherwise; every GET observes the
\* empty value or the final id.
C20_FlowCellWrittenOnce ==
    /\ Len(cell_writes) <= 1
    /\ \A i \in 1..Len(cell_writes) : cell_writes[i] = "main"
    /\ IF cell_writes = <<>>
       THEN flow_cell = None
       ELSE /\ Truthy(create_response.token_flow_id)
            /\ flow_cell = create_response.token_flow_id
            /\ events[1] = "create"
    /\ (Rank(l_state) \in {2, 3} \/ "browser" \in {events[i] : i \in 1..Len(events)})
          => Len(cell_writes) = 1
    /\ srv_local \in {None, flow_cell}
    /\ \A i \in 1..Len(gets) : gets[i].seen \in {None, flow_cell}

C20_Witness ==
    /\ cell_writes = <<"main">>
    /\ srv_pc = "handling"
    /\ srv_local = None
    /\ flow_cell = "xyz"

Count(seq, x) == Cardinality({i \in DOMAIN seq : seq[i] = x})

\* C21: create is called once in a login command, and every wait call carries
\* the token_flow_id and the wait_secret of the create response, the same in
\* every polling round.
C21_WaitCarriesCreatedFlow ==
    /\ Count(events, "create") <= 1
    /\ wait_log # <<>> => (Count(events, "create") = 1 /\ events[1] = "create")
    /\ Count(events, "wait") = Len(wait_log)
    /\ \A i \in DOMAIN wait_log :
          /\ wait_log[i].token_flow_id = create_response.token_flow_id
          /\ Truthy(wait_log[i].token_flow_id)
          /\ wait_log[i].wait_secret = create_response.wait_secret
          /\ wait_log[i] = wait_log[1]

C21_Witness ==
    /\ Len(wait_log) = 3
    /\ wait_log[3].wait_secret = "w1"
    /\ wait_log[3].token_flow_id = "xyz"

\* C24 (as stated): when a credential was obtained and the credential store is
\* unavailable or a write fails, the login command does not end in failed.
C24_StoreFailureNotFatal ==
    (LoopLeft /\ FirstNonEmpty(wait_payload) # None /\ store_mode # "ok")
    => l_state # "failed"

\* C25: when the configured port cannot be bound the server is bound to another,
\* OS-assigned port and the command goes on to create; the localhost_port sent
\* by create is the port the server is bound to.
C25_PortFallback ==
    /\ (server # NoServer /\ ~port_free)
          => /\ server.port = OsAssignedPort
             /\ server.port # ConfiguredPort
             /\ l_trace[1] = "starting"
             /\ l_pc = "create" => (l_exit = NoExit /\ server.serving)
    /\ (server # NoServer /\ port_free) => server.port = ConfiguredPort
    /\ create_port # 0 => create_port = server.port

C25_Witness ==
    /\ ~port_free
    /\ create_port = OsAssignedPort
    /\ l_state = "succeeded"

\* C30 (as stated): the URL opened and printed carries the token_flow_id of the
\* created flow and source=cli, and the code when create returned one, with or
\* without a web_url in the create response.
C30_UrlCarriesFlow ==
    browser_url # NoUrl
    => /\ <<"token_flow_id", create_response.token_flow_id>> \in browser_url.query
       /\ <<"source", "cli">> \in browser_url.query
       /\ Truthy(create_response.code)
             => <<"code", create_response.code>> \in browser_url.query

\* C22: for every timeout_seconds >= 0, wait sends timeout_seconds as the
\* server-side window and uses timeout_seconds + 5 as local timeout, which is
\* strictly greater, so an answer given within the window is never cut off.
C22_LocalTimeoutExceedsWindow ==
    wait_call # NoWaitCall
    => /\ wait_call.timeout_seconds >= 0
       /\ wait_call.timeout = wait_call.timeout_seconds
       /\ wait_call.request_timeout = wait_call.timeout_seconds + 5
       /\ wait_call.request_timeout > wait_call.timeout
       /\ ~wait_call.cut_off

C22_Witness ==
    /\ wait_call.timeout_seconds = 0
    /\ wait_call.answered_at = 0
    /\ wait_call.request_timeout = 5
    /\ ~wait_call.cut_off

Is5xx(r) == r # NoResponse /\ 500 <= r.status /\ r.status <= 599

\* C26: in get / post / patch / delete a response is retried only when its
\* status is in 500..599 and at most 5 times, a response with another status is
\* final, and after the last retry the 5xx response is handed to
\* raise_for_status, which raises its HTTP error.
C26_SyncRetry ==
    op \in SyncOps =>
        /\ NumSleeps <= 5
        /\ NumSleeps <= nfail
        /\ NumSleeps = adapter_total - retries_total
        /\ (answers >= 1 /\ response # NoResponse /\ ~Is5xx(response))
              => /\ pc = "done"
                 /\ NumSleeps = answers - 1
                 /\ nfail = answers - 1
        /\ (answers >= 1 /\ Is5xx(response))
              => IF answers <= 5
                 THEN pc \in {"send", "inflight"} /\ NumSleeps = answers
                 ELSE /\ pc = "done"
                      /\ answers = 6
                      /\ NumSleeps = 5
                      /\ result = Raised(HTTPError(response.status))

C26_Witness ==
    /\ op \in SyncOps /\ pc = "done"
    /\ NumRequests = 6 /\ nfail = 6
    /\ result = Raised(HTTPError(500))

\* C27 (as stated): every async operation, augmentation_async included, retries
\* a 5xx answer up to the budget with back-off before it surfaces it.
C27_AsyncRetries5xx ==
    (op \in RetryAsyncOps \cup {AugOp} /\ pc = "done" /\ Is5xx(response))
    => /\ NumRequests = 6
       /\ NumSleeps = 5
       /\ result = Raised(HTTPError(response.status))

\* C28: resolve_api_key returns (env key, "env") when MEMORI_API_KEY is
\* non-empty, else (stored key, "keyring") when the store is enabled, available,
\* readable and holds a non-empty key, else (none, none); key and source come
\* together, and it never raises.
C28_ResolveApiKey ==
    cmd.name = "resolve"
    => /\ ~cmd.raised
       /\ (cmd.key = None) <=> (cmd.source = None)
       /\ IF env_api_key \notin {None, ""}
          THEN cmd.key = env_api_key /\ cmd.source = "env"
          ELSE IF /\ ~disable_keyring
                  /\ store_mode \notin {"unavailable", "read_fails"}
                  /\ keyring.api_key \notin {None, ""}
          THEN cmd.key = keyring.api_key /\ cmd.source = "keyring"
          ELSE cmd.key = None /\ cmd.source = None

C28_Witness ==
    /\ cmd.name = "resolve"
    /\ env_api_key = "env-key"
    /\ keyring.api_key = "old-key"
    /\ store_mode = "ok"
    /\ ~disable_keyring
    /\ cmd.source = "env"

\* C23 (as stated): login, status and logout exit with 0 exactly when they
\* succeeded and with 1 on every failure or cancellation.
C23_ExitCodes ==
    /\ (l_pc = "exited" /\ l_exit.how = "return")
          => /\ l_exit.code \in {0, 1}
             /\ (l_exit.code = 0) <=> (l_state = "succeeded")
    /\ cmd.name = "status"
          => /\ cmd.code \in {0, 1}
             /\ (cmd.code = 0) <=> (cmd.report = "authenticated")
    /\ cmd.name = "logout"
          => /\ cmd.code \in {0, 1}
             /\ (cmd.code = 0) <=> (cmd.report = "logged_out")

\* with MEMORI_API_KEY unset and the credential store available and enabled
StoreUsable == env_api_key = None /\ ~disable_keyring /\ store_mode = "ok"

\* C29: with MEMORI_API_KEY unset and the store available and enabled, after a
\* successful login with credential k resolve_api_key returns (k, "keyring") and
\* status reports authenticated; after a logout resolve_api_key returns
\* (none, none), no account email is stored and status reports not logged in.
C29_CredentialLifecycle ==
    StoreUsable =>
        /\ l_state = "succeeded"
              => /\ keyring.api_key = FirstNonEmpty(wait_payload)
                 /\ resolve_api_key(env_api_key, disable_keyring, store_mode, keyring)
                       = <<FirstNonEmpty(wait_payload), "keyring">>
        /\ (cmd.prev = "login" /\ cmd.prev_code = 0 /\ l_pc = "off")
              => /\ cmd.name = "resolve"
                       => cmd.key = cmd.prev_key /\ cmd.source = "keyring"
                 /\ cmd.name = "status"
                       => /\ cmd.key = cmd.prev_key /\ cmd.source = "keyring"
                          /\ cmd.report = "authenticated" /\ cmd.code = 0
                 /\ cmd.name \in {"resolve", "status"} => keyring.api_key = cmd.prev_key
        /\ (cmd.name = "logout" /\ l_pc = "off")
              => /\ keyring.api_key = None
                 /\ keyring.email = None
                 /\ resolve_api_key(env_api_key, disable_keyring, store_mode, keyring)
                       = <<None, None>>
        /\ (cmd.prev = "logout" /\ l_pc = "off")
              => /\ cmd.name = "resolve" => cmd.key = None /\ cmd.source = None
                 /\ cmd.name = "status"
                       => cmd.report = "not_logged_in" /\ cmd.key = None

C29_Witness ==
    /\ StoreUsable
    /\ ncmds = 3
    /\ cmd.name = "logout"
    /\ cmd.prev = "login"
    /\ cmd.prev_code = 0
    /\ cmd.prev_key = "t1"
    /\ keyring = EmptyKeyring

----------------------------------------------------------------------------
(* Memori construction: the "running without an API key" nudge             *)
(* (memori/__init__.py).  Threads of one process construct Memori objects; *)
(* _check_auth holds no lock, so a thread switch can fall between any two  *)
(* of its statements.                                                      *)

MaxConstructions == 3

\* what a construction resolved (config.api_key) and what it sees
\* (MEMORI_DISABLE_NUDGE == "1", stdout or stderr is a terminal)
ConstructionEnvs ==
    [api_key : {None, "", "key"}, disable_nudge : BOOLEAN, tty : BOOLEAN]

\* Memori.__init__ up to the call of _check_auth
construct(t, env) ==
    /\ c_pc[t] = "idle"
    /\ n_constructed < MaxConstructions
    /\ n_constructed' = n_constructed + 1
    /\ c_env' = [c_env EXCEPT ![t] = env]
    /\ c_pc' = [c_pc EXCEPT ![t] = "test_flag"]
    /\ UNCHANGED <<_AUTH_NUDGE_SHOWN, nudges, shown_with>>
    /\ UNCHANGED <<cfgVars, netVars, retry_call, loginVars, cliVars, attrVars, clusterVars>>

\* _check_auth: if _AUTH_NUDGE_SHOWN: return
test_flag(t) ==
    /\ c_pc[t] = "test_flag"
    /\ c_pc' = [c_pc EXCEPT ![t] = IF _AUTH_NUDGE_SHOWN THEN "idle" ELSE "test_env"]
    /\ UNCHANGED <<_AUTH_NUDGE_SHOWN, nudges, shown_with, c_env, n_constructed>>
    /\ UNCHANGED <<cfgVars, netVars, retry_call, loginVars, cliVars, attrVars, clusterVars>>

\* _check_auth: the three early returns on the API key, MEMORI_DISABLE_NUDGE
\* and the terminals
test_env(t) ==
    /\ c_pc[t] = "test_env"
    /\ c_pc' = [c_pc EXCEPT ![t] =
                   IF \/ Truthy(c_env[t].api_key)
                      \/ c_env[t].disable_nudge
                      \/ ~c_env[t].tty
                   THEN "idle" ELSE "set_flag"]
    /\ UNCHANGED <<_AUTH_NUDGE_SHOWN, nudges, shown_with, c_env, n_constructed>>
    /\ UNCHANGED <<cfgVars, netVars, retry_call, loginVars, cliVars, attrVars, clusterVars>>

\* _check_auth: _AUTH_NUDGE_SHOWN = True
set_flag(t) ==
    /\ c_pc[t] = "set_flag"
    /\ _AUTH_NUDGE_SHOWN' = TRUE
    /\ c_pc' = [c_pc EXCEPT ![t] = "display"]
    /\ UNCHANGED <<nudges, shown_with, c_env, n_constructed>>
    /\ UNCHANGED <<cfgVars, netVars, retry_call, loginVars, cliVars, attrVars, clusterVars>>

\* _check_auth: the panel (or the plain message) is printed to stderr
display(t) ==
    /\ c_pc[t] = "display"
    /\ nudges' = nudges + 1
    /\ shown_with' = shown_with \cup {c_env[t]}
    /\ c_pc' = [c_pc EXCEPT ![t] = "idle"]
    /\ UNCHANGED <<_AUTH_NUDGE_SHOWN, c_env, n_constructed>>
    /\ UNCHANGED <<cfgVars, netVars, retry_call, loginVars, cliVars, attrVars, clusterVars>>

InitNudge ==
    /\ config_api_key = None
    /\ env_api_key = None
    /\ x_api_key = InitXApiKey(None, FALSE)
    /\ IdleNet
    /\ retry_call = NoRetryCall
    /\ LoginOff
    /\ CliOff
    /\ LibOff

NextNudge ==
    \E t \in Threads :
        \/ \E env \in ConstructionEnvs : construct(t, env)
        \/ test_flag(t)
        \/ test_env(t)
        \/ set_flag(t)
        \/ display(t)

SpecNudge == InitNudge /\ [][NextNudge]_vars

\* C31: over any interleaving of Memori constructions in one process the
\* nudge is displayed at most once, and never by a construction that resolved
\* an API key, saw MEMORI_DISABLE_NUDGE=1 or had no terminal.
C31_NudgeAtMostOnce ==
    /\ nudges <= 1
    /\ \A e \in shown_with : ~Truthy(e.api_key) /\ ~e.disable_nudge /\ e.tty

\* C32: with MEMORI_DISABLE_KEYRING=1 no command reads from or writes to the
\* credential store: no key is resolved from it and its entries stay as they
\* are through login and logout.
C32_DisabledStoreUntouched ==
    [][disable_keyring => (cmd'.source # "keyring" /\ keyring' = keyring)]_vars

\* C33: the login command writes to the credential store only in the step
\* that follows a wait answer which is not a timeout and carries a
\* credential; every other step of the command, and so every run that ends
\* before that point, leaves the store exactly as it was.
C33_StoreWrittenOnlyAfterCredential ==
    [][(keyring' # keyring \/ store_writes' # store_writes) =>
          /\ l_pc = "extract"
          /\ wait_log # <<>>
          /\ ~IsTimeout(wait_payload)
          /\ FirstNonEmpty(wait_payload) # None
          /\ l_exit'.line \in {246, 254}]_vars

C33_Witness ==
    /\ LoginExited
    /\ l_exit.line = 254
    /\ n_timeouts > 0
    /\ store_writes > 0
    /\ keyring.api_key = FirstNonEmpty(wait_payload)

\* C34: save_api_key is all-or-nothing: whenever it raises (the login then
\* returns 1 at line 246) the credential store holds the same API key and the
\* same account email as before the call.
C34_SaveAllOrNothing ==
    [][(l_pc = "extract" /\ l_exit'.line = 246) => keyring' = keyring]_vars

\* C35: after a successful login the account email held in the credential
\* store is the email returned together with the stored API key, or absent
\* when that login returned no email; never the email of an earlier login.
C35_EmailBelongsToStoredKey ==
    [][(l_pc = "extract" /\ l_exit'.line = 254) =>
          /\ keyring'.api_key = FirstNonEmpty(wait_payload)
          /\ keyring'.email = IF Truthy(DictGet(wait_payload, "email"))
                              THEN DictGet(wait_payload, "email")
                              ELSE None]_vars

----------------------------------------------------------------------------
(* ClusterManager.start and ClusterManager.delete                          *)
(* (memori/storage/cockroachdb/_cluster_manager.py).  The local record of  *)
(* the cluster is one file holding its id: cluster_is_started tests that   *)
(* the file exists, write_id creates it, read_id reads it, remove_id       *)
(* removes it.                                                             *)

\* start: range(24)
FinalizeAttempts == 24

\* what the service can answer to cockroachdb/cluster/start: the cluster's
\* uuid, or the post raises
StartAnswers ==
    { [kind |-> "return", uuid |-> u, cls |-> None] : u \in {"u1", "u2"} }
    \cup { [kind |-> "raise", uuid |-> None, cls |-> c] :
              c \in {"HTTPError", "QuotaExceededError"} }

\* what the service can answer to cockroachdb/cluster/finalize: a status, an
\* answer without status (KeyError at line 124), or the post raises
FinalizeAnswers ==
    { [kind |-> "return", status |-> st, cls |-> None] : st \in {0, 1, 2} }
    \cup { [kind |-> "raise", status |-> -1, cls |-> c] :
              c \in {"HTTPError", "QuotaExceededError", "KeyError"} }

\* a cluster counts as online from any non-zero status
IsOnline_nonzero(status) == status # 0

\* start: finalized["status"] == 1
IsOnline(status) == status = 1

\* ClusterManager.cluster_is_started
cluster_is_started == cluster_id_file # None

\* every HTTP error of the remote delete is swallowed
Tolerated_any_http(e) == e.cls = "HTTPError"

\* delete: the except clause swallows an HTTPError that answered 404
Tolerated(e) == e.cls = "HTTPError" /\ e.status = 404

\* Api.delete on the final outcome of the retrying adapter
Api_delete(r) ==
    IF r = NoResponse THEN Raised(OtherError("ConnectionError")) ELSE SyncResult(r)

\* an operation is called on a ClusterManager at rest
CmCalled(o) ==
    /\ cm_pc = "idle"
    /\ cm_op' = o
    /\ cm_before' = cluster_id_file
    /\ cm_started' = None
    /\ cm_i' = 0
    /\ cm_finalized' = -1
    /\ schema_built' = FALSE

\* start: the test of cluster_is_started and the texts before the prompt
start ==
    /\ CmCalled("start")
    /\ IF cluster_is_started
       THEN cm_exit' = CmReturn /\ cm_pc' = "idle"
       ELSE cm_exit' = CmRunning /\ cm_pc' = "prompt"
    /\ cm_hist' = NoRequests
    /\ cm_api_result' = NoResult
    /\ UNCHANGED cluster_id_file
    /\ UNCHANGED <<cfgVars, netVars, retry_call, loginVars, cliVars, nudgeVars, attrVars>>

\* start: input("Proceed [Y/n] ")
start_prompt(proceed) ==
    /\ cm_pc = "prompt"
    /\ IF proceed \notin {"y", "Y", ""}
       THEN cm_exit' = CmSysExit /\ cm_pc' = "idle"
       ELSE cm_pc' = "post_start" /\ UNCHANGED cm_exit
    /\ UNCHANGED <<cluster_id_file, cm_op, cm_started, cm_i, cm_finalized, cm_before,
                   cm_hist, cm_api_result, schema_built>>
    /\ UNCHANGED <<cfgVars, netVars, retry_call, loginVars, cliVars, nudgeVars, attrVars>>

\* start: Api(Config()).post("cockroachdb/cluster/start")
start_post(ans) ==
    /\ cm_pc = "post_start"
    /\ cm_hist' = [cm_hist EXCEPT !.start = @ + 1]
    /\ IF ans.kind = "raise"
       THEN cm_exit' = CmRaise(ans.cls) /\ cm_pc' = "idle" /\ UNCHANGED cm_started
       ELSE cm_started' = ans.uuid /\ cm_pc' = "finalize" /\ UNCHANGED cm_exit
    /\ UNCHANGED <<cluster_id_file, cm_op, cm_i, cm_finalized, cm_before,
                   cm_api_result, schema_built>>
    /\ UNCHANGED <<cfgVars, netVars, retry_call, loginVars, cliVars, nudgeVars, attrVars>>

\* start: one pass of the loop over range(24): the finalize post, the test
\* of its status, the sleep
start_finalize(ans) ==
    /\ cm_pc = "finalize"
    /\ cm_i < FinalizeAttempts
    /\ cm_hist' = [cm_hist EXCEPT
                     !.finalize = @ + 1,
                     !.after_one = IF cm_hist.ones > 0 THEN @ + 1 ELSE @,
                     !.ones = IF ans.kind = "return" /\ ans.status = 1 THEN @ + 1 ELSE @]
    /\ IF ans.kind = "raise"
       THEN /\ cm_exit' = CmRaise(ans.cls)
            /\ cm_pc' = "idle"
            /\ UNCHANGED <<cm_i, cm_finalized>>
       ELSE /\ cm_finalized' = ans.status
            /\ cm_i' = cm_i + 1
            /\ cm_pc' = IF IsOnline(ans.status) \/ cm_i + 1 >= FinalizeAttempts
                        THEN "after_loop" ELSE "finalize"
            /\ UNCHANGED cm_exit
    /\ UNCHANGED <<cluster_id_file, cm_op, cm_started, cm_before, cm_api_result,
                   schema_built>>
    /\ UNCHANGED <<cfgVars, netVars, retry_call, loginVars, cliVars, nudgeVars, attrVars>>

\* start: after the loop, cluster_finalize_failed or write_id
start_after_loop ==
    /\ cm_pc = "after_loop"
    /\ IF cm_finalized = -1 \/ ~IsOnline(cm_finalized)
       THEN /\ cm_exit' = CmRaise("RuntimeError")
            /\ cm_pc' = "idle"
            /\ UNCHANGED cluster_id_file
       ELSE /\ cluster_id_file' = cm_started
            /\ cm_pc' = "schema"
            /\ UNCHANGED cm_exit
    /\ UNCHANGED <<cm_op, cm_started, cm_i, cm_finalized, cm_before, cm_hist,
                   cm_api_result, schema_built>>
    /\ UNCHANGED <<cfgVars, netVars, retry_call, loginVars, cliVars, nudgeVars, attrVars>>

\* start: Manager.start and Builder.execute build the schema, or raise
start_schema(built) ==
    /\ cm_pc = "schema"
    /\ schema_built' = built
    /\ cm_exit' = IF built THEN CmReturn ELSE CmRaise("OperationalError")
    /\ cm_pc' = "idle"
    /\ UNCHANGED <<cluster_id_file, cm_op, cm_started, cm_i, cm_finalized, cm_before,
                   cm_hist, cm_api_result>>
    /\ UNCHANGED <<cfgVars, netVars, retry_call, loginVars, cliVars, nudgeVars, attrVars>>

\* ClusterManager.delete; r is the final outcome of the remote delete
delete(r) ==
    /\ CmCalled("delete")
    /\ cm_pc' = "idle"
    /\ IF ~cluster_is_started
       THEN /\ cm_exit' = CmReturn
            /\ cm_hist' = NoRequests
            /\ cm_api_result' = NoResult
            /\ UNCHANGED cluster_id_file
       ELSE LET res == Api_delete(r) IN
            /\ cm_hist' = [NoRequests EXCEPT !.delete = 1]
            /\ cm_api_result' = res
            /\ IF res.kind = "raise" /\ ~Tolerated(res.exc)
               THEN cm_exit' = CmRaise(res.exc.cls) /\ UNCHANGED cluster_id_file
               ELSE cm_exit' = CmReturn /\ cluster_id_file' = None
    /\ UNCHANGED <<cfgVars, netVars, retry_call, loginVars, cliVars, nudgeVars, attrVars>>

Proceeds == {"y", "Y", "", "n", "no"}

InitCluster ==
    /\ config_api_key \in ConfigKeys
    /\ env_api_key = None
    /\ x_api_key = InitXApiKey(None, FALSE)
    /\ IdleNet
    /\ retry_call = NoRetryCall
    /\ LoginOff
    /\ CliOff
    /\ NudgeOff
    /\ AttributionOff
    /\ cluster_id_file \in {None, "u0"}
    /\ cm_before = None
    /\ ClusterRest

NextCluster ==
    \/ start
    \/ \E proceed \in Proceeds : start_prompt(proceed)
    \/ \E ans \in StartAnswers : start_post(ans)
    \/ \E ans \in FinalizeAnswers : start_finalize(ans)
    \/ start_after_loop
    \/ \E built \in BOOLEAN : start_schema(built)
    \/ \E r \in Outcomes : delete(r)

SpecCluster == InitCluster /\ [][NextCluster]_vars

CmEnded == cm_pc = "idle" /\ cm_exit.how \in {"return", "raise", "exit"}

\* C36: ClusterManager.start with no cluster recorded locally calls finalize
\* at most 24 times and stops at the first answer with status 1; the local id
\* is written and the schema built only after such an answer; when all 24
\* answers have another status, start raises RuntimeError and writes no local
\* id; with a cluster already recorded it sends no request and leaves the
\* local id unchanged.
C36_StartFinalizes ==
    cm_op = "start" =>
        /\ cm_hist.finalize <= 24
        /\ cm_hist.after_one = 0
        /\ (cluster_id_file # cm_before \/ schema_built) =>
               /\ cm_hist.ones = 1
               /\ cm_finalized = 1
               /\ cluster_id_file = cm_started
        /\ (CmEnded /\ cm_i = 24 /\ cm_hist.ones = 0) =>
               /\ cm_exit = CmRaise("RuntimeError")
               /\ cluster_id_file = None
        /\ cm_before # None =>
               /\ cm_hist = NoRequests
               /\ cluster_id_file = cm_before
               /\ cm_exit = CmReturn

C36_Witness ==
    /\ cm_op = "start"
    /\ CmEnded
    /\ cm_exit = CmReturn
    /\ cm_before = None
    /\ cm_hist.finalize = 24
    /\ cm_hist.ones = 1
    /\ cluster_id_file = cm_started
    /\ schema_built

\* C37: ClusterManager.delete on a locally recorded cluster removes the local
\* id exactly when the remote delete succeeded or answered 404; on any other
\* failure the error propagates and the local id is kept; with no cluster
\* recorded it sends no request.
C37_DeleteKeepsIdOnFailure ==
    (cm_op = "delete" /\ CmEnded) =>
        IF cm_before = None
        THEN cm_hist = NoRequests /\ cluster_id_file = None /\ cm_exit = CmReturn
        ELSE LET ok == \/ cm_api_result.kind = "return"
                       \/ /\ cm_api_result.kind = "raise"
                          /\ cm_api_result.exc.cls = "HTTPError"
                          /\ cm_api_result.exc.status = 404
             IN  /\ cm_hist.delete = 1
                 /\ (cluster_id_file = None) <=> ok
                 /\ ok => cm_exit = CmReturn
                 /\ ~ok => /\ cm_exit = CmRaise(cm_api_result.exc.cls)
                           /\ cluster_id_file = cm_before
                           /\ cluster_is_started

C37_Witness ==
    /\ cm_op = "delete"
    /\ CmEnded
    /\ cm_before # None
    /\ cm_api_result.kind = "raise"
    /\ cm_api_result.exc.cls = "QuotaExceededError"
    /\ cluster_id_file = cm_before

----------------------------------------------------------------------------
(* Memori.attribution (memori/__init__.py)                                 *)

\* attribution: the longest string form accepted
MaxAttributionLength == 100

\* lengths of string forms around the limit
AttrLengths ==
    {0, 1, MaxAttributionLength - 1, MaxAttributionLength, MaxAttributionLength + 1}

\* arguments of attribution: None (also the default), strings and integers
AttrValues ==
    {AttrNone} \cup [kind : {"str", "int"}, len : AttrLengths \ {0}]
               \cup {[kind |-> "str", len |-> 0]}

\* str(v)
str(v) == [kind |-> "str", len |-> v.len]

\* a limit that also rejects a string form of exactly 100 characters
TooLong_from_100(v) == v.len >= MaxAttributionLength

\* attribution: len(entity_id) > 100
TooLong(v) == v.len > MaxAttributionLength

\* attribution: the conversion of one argument, done when it is not None
AttrConverted(v) == IF v # AttrNone THEN str(v) ELSE v

attribution(entity_id, process_id) ==
    LET e == AttrConverted(entity_id)
        p == AttrConverted(process_id)
        raises == (entity_id # AttrNone /\ TooLong(e))
                  \/ (process_id # AttrNone /\ TooLong(p))
    IN  /\ attr_call' = [called |-> TRUE, entity_id |-> entity_id,
                         process_id |-> process_id,
                         before_entity |-> config_entity_id,
                         before_process |-> config_process_id,
                         raised |-> IF raises THEN "RuntimeError" ELSE None]
        /\ IF raises
           THEN UNCHANGED <<config_entity_id, config_process_id>>
           ELSE config_entity_id' = e /\ config_process_id' = p
        /\ UNCHANGED <<cfgVars, netVars, retry_call, loginVars, cliVars, nudgeVars, clusterVars>>

InitAttribution ==
    /\ config_api_key = None
    /\ env_api_key = None
    /\ x_api_key = InitXApiKey(None, FALSE)
    /\ IdleNet
    /\ retry_call = NoRetryCall
    /\ LoginOff
    /\ CliOff
    /\ LibOff

NextAttribution == \E entity_id, process_id \in AttrValues : attribution(entity_id, process_id)

SpecAttribution == InitAttribution /\ [][NextAttribution]_vars

\* the string form of an argument: None stays None
StrForm(v) == IF v.kind = "None" THEN v ELSE [kind |-> "str", len |-> v.len]

\* C38: attribution raises RuntimeError when the string form of entity_id or
\* of process_id is longer than 100 characters, and then changes neither
\* config field; when it does not raise, both fields are overwritten with the
\* given values, an omitted argument resetting its field to none.
C38_AttributionLimit ==
    attr_call.called =>
        LET long == \/ StrForm(attr_call.entity_id).len > 100
                    \/ StrForm(attr_call.process_id).len > 100
        IN  /\ long => /\ attr_call.raised = "RuntimeError"
                       /\ config_entity_id = attr_call.before_entity
                       /\ config_process_id = attr_call.before_process
            /\ ~long => /\ attr_call.raised = None
                        /\ config_entity_id = StrForm(attr_call.entity_id)
                        /\ config_process_id = StrForm(attr_call.process_id)

C38_Witness ==
    /\ attr_call.called
    /\ attr_call.raised = "RuntimeError"
    /\ attr_call.entity_id.len = 100
    /\ attr_call.process_id.len = 101
    /\ config_entity_id.len = 1
    /\ config_process_id = AttrNone


====
